---- MODULE Spec2Model ----
(***************************************************************************)
(* Model of the channel-listing filters of bun-postgresql-streamio-tv:     *)
(* the religious-content classifier of improved_religious_filter.py (its  *)
(* lexicon, domain extractor, text and domain analyzers, channel          *)
(* classifier and batch driver filter_csv).                                *)
(*                                                                         *)
(* Strings are sequences of one-character strings.  Confidences are       *)
(* integers in units of 1/10000 (0.8 is 8000); FloatAdd reproduces the    *)
(* one IEEE-754 rounding that is visible at that resolution.              *)
(***************************************************************************)
EXTENDS Integers, Sequences, FiniteSets, TLC

\* ------------------------------------------------------------------------
\* Bounds of the model
\* ------------------------------------------------------------------------
MaxWords == 2
MaxUrlTokens == 3
MaxRows == 2

\* ------------------------------------------------------------------------
\* Characters and strings
\* ------------------------------------------------------------------------
UpperLetters ==
  {"A","B","C","D","E","F","G","H","I","J","K","L","M",
   "N","O","P","Q","R","S","T","U","V","W","X","Y","Z"}

LowerLetters ==
  {"a","b","c","d","e","f","g","h","i","j","k","l","m",
   "n","o","p","q","r","s","t","u","v","w","x","y","z",
   "á","é","í","ó","ú","ñ"}

Digits == {"0","1","2","3","4","5","6","7","8","9"}

HexDigits == Digits \cup {"a","b","c","d","e","f","A","B","C","D","E","F"}

\* str.lower() on one character (ASCII letters; every other character of
\* the model's alphabet is unchanged by lower()).
LowerChar(c) ==
  CASE c = "A" -> "a" [] c = "B" -> "b" [] c = "C" -> "c" [] c = "D" -> "d"
    [] c = "E" -> "e" [] c = "F" -> "f" [] c = "G" -> "g" [] c = "H" -> "h"
    [] c = "I" -> "i" [] c = "J" -> "j" [] c = "K" -> "k" [] c = "L" -> "l"
    [] c = "M" -> "m" [] c = "N" -> "n" [] c = "O" -> "o" [] c = "P" -> "p"
    [] c = "Q" -> "q" [] c = "R" -> "r" [] c = "S" -> "s" [] c = "T" -> "t"
    [] c = "U" -> "u" [] c = "V" -> "v" [] c = "W" -> "w" [] c = "X" -> "x"
    [] c = "Y" -> "y" [] c = "Z" -> "z" [] OTHER -> c

\* F(v) with v evaluated once and F applied to its value
With(v, F(_)) == CHOOSE r \in {F(x) : x \in {v}} : TRUE

\* str.lower()  (SubSeq makes the result a sequence value)
Lower(s) == SubSeq([i \in 1..Len(s) |-> LowerChar(s[i])], 1, Len(s))

\* s[i:] of Python with the 1-based index i of the first character kept
Drop(s, i) == SubSeq(s, i, Len(s))

\* k occurs in s at (1-based) position i
OccursAt(k, s, i) ==
  /\ i >= 1
  /\ i + Len(k) - 1 <= Len(s)
  /\ \A j \in 1..Len(k) : s[i + j - 1] = k[j]

\* Python's `k in s` for strings
Contains(s, k) == \E i \in 1..(Len(s) - Len(k) + 1) : SubSeq(s, i, i + Len(k) - 1) = k

\* the non-empty substrings of s: k in s  iff  k \in Substrings(s)
Substrings(s) ==
  UNION {{SubSeq(s, i, j) : j \in i..Len(s)} : i \in 1..Len(s)}

\* the terms of a set that occur in s: {k for k in terms if k in s}
TermsIn(terms, s) == terms \cap Substrings(s)

\* the characters of s
Range(s) == {s[i] : i \in 1..Len(s)}

\* s.startswith(p)
StartsWith(s, p) == OccursAt(p, s, 1)

\* s.find(c, start): the least position >= start holding c, 0 when absent
RECURSIVE FindFrom(_, _, _)
FindFrom(s, chars, start) ==
  IF start > Len(s) THEN 0
  ELSE IF s[start] \in chars THEN start
  ELSE FindFrom(s, chars, start + 1)

\* str.strip() for the only whitespace of the alphabet, the space
RECURSIVE LStrip(_)
LStrip(s) == IF s # <<>> /\ Head(s) = " " THEN LStrip(Tail(s)) ELSE s

RECURSIVE RStrip(_)
RStrip(s) ==
  IF s # <<>> /\ s[Len(s)] = " " THEN RStrip(SubSeq(s, 1, Len(s) - 1)) ELSE s

Strip(s) == RStrip(LStrip(s))

\* s.split(sep): the fields of s between occurrences of the character sep
RECURSIVE Split(_, _)
Split(s, sep) ==
  LET p == FindFrom(s, {sep}, 1)
  IN  IF p = 0 THEN <<s>>
      ELSE <<SubSeq(s, 1, p - 1)>> \o Split(Drop(s, p + 1), sep)

\* the concatenation of a sequence of strings, a space between neighbours
RECURSIVE JoinWords(_)
JoinWords(ws) ==
  IF ws = <<>> THEN <<>>
  ELSE IF Len(ws) = 1 THEN ws[1]
  ELSE ws[1] \o <<" ">> \o JoinWords(Tail(ws))

\* the concatenation of a sequence of strings
RECURSIVE Concat(_)
Concat(ws) == IF ws = <<>> THEN <<>> ELSE Head(ws) \o Concat(Tail(ws))

\* all sequences over S of length lo..hi
SeqsUpTo(S, lo, hi) == UNION {[1..n -> S] : n \in lo..hi}

\* ------------------------------------------------------------------------
\* Lexicon (ImprovedReligiousFilter.__init__)
\* ------------------------------------------------------------------------
high_precision_keywords ==
  {
    <<"3","a","b","n">>, <<"a","d","v","e","n","t">>, <<"a","d","v","e","n","t","i","s","t">>,
    <<"a","d","v","e","n","t","i","s","t","a">>, <<"a","d","v","i","e","n","t","o">>,
    <<"a","l","e","l","u","y","a">>, <<"a","l","l","a","h">>, <<"a","l","t","a","r">>,
    <<"a","m","e","n">>, <<"a","p","o","s","t","l","e">>, <<"a","p","o","s","t","o","l">>,
    <<"a","s","c","e","n","s","i","o","n">>, <<"b","a","p","t","i","s","m">>,
    <<"b","a","p","t","i","s","t">>, <<"b","a","u","t","i","s","m","o">>,
    <<"b","a","u","t","i","s","t","a">>, <<"b","e","n","d","i","c","i","o","n">>,
    <<"b","e","t","h","e","l">>, <<"b","i","b","l","e">>, <<"b","i","b","l","i","a">>,
    <<"b","i","s","h","o","p">>, <<"b","l","e","s","s","i","n","g">>, <<"b","u","d","a">>,
    <<"b","u","d","d","h","a">>, <<"b","u","d","d","h","i","s","m">>,
    <<"b","u","d","i","s","m","o">>,
    <<"c","a","n","a","l"," ","d","i","o","c","e","s","a","n","o">>,
    <<"c","a","n","a","l"," ","l","u","z">>,
    <<"c","a","n","a","l"," ","s","a","n","t","a"," ","m","a","r","i","a">>,
    <<"c","a","p","i","l","l","a">>, <<"c","a","r","i","t","a","s">>,
    <<"c","a","t","e","d","r","a","l">>, <<"c","a","t","h","e","d","r","a","l">>,
    <<"c","a","t","h","o","l","i","c">>, <<"c","a","t","o","l","i","c","o">>,
    <<"c","h","a","p","e","l">>, <<"c","h","r","i","s","t">>,
    <<"c","h","r","i","s","t","i","a","n">>, <<"c","h","r","i","s","t","m","a","s">>,
    <<"c","h","u","r","c","h">>, <<"c","o","m","m","u","n","i","o","n">>,
    <<"c","o","m","u","n","i","o","n">>, <<"c","o","n","f","e","s","i","o","n">>,
    <<"c","o","n","f","e","s","s","i","o","n">>,
    <<"c","o","n","f","i","r","m","a","c","i","o","n">>,
    <<"c","o","n","f","i","r","m","a","t","i","o","n">>, <<"c","o","r","á","n">>,
    <<"c","r","i","s","t","i","a","n","o">>, <<"c","r","i","s","t","o">>, <<"c","r","o","s","s">>,
    <<"c","r","u","c","i","f","i","j","o">>, <<"c","r","u","c","i","f","i","x">>,
    <<"c","r","u","z">>, <<"c","u","a","r","e","s","m","a">>, <<"d","h","a","r","m","a">>,
    <<"d","i","o","c","e","s","a","n","o">>, <<"d","i","o","c","e","s","e">>, <<"d","i","o","s">>,
    <<"e","a","s","t","e","r">>, <<"e","i","d">>, <<"e","n","l","a","c","e">>,
    <<"e","s","p","i","r","i","t","u">>, <<"e","u","c","a","r","i","s","t","i","a">>,
    <<"e","u","c","h","a","r","i","s","t">>, <<"e","v","a","n","g","e","l","i","o">>,
    <<"e","w","t","n">>, <<"f","e","l","i","g","r","e","s">>,
    <<"f","o","r","g","i","v","e","n","e","s","s">>, <<"g","l","o","r","i","a">>,
    <<"g","l","o","r","y">>, <<"g","o","d">>, <<"g","o","s","p","e","l">>, <<"g","r","a","c","e">>,
    <<"g","r","a","c","i","a">>, <<"h","a","j","j">>, <<"h","a","l","l","e","l","u","j","a","h">>,
    <<"h","a","n","u","k","k","a","h">>, <<"h","i","n","d","u">>,
    <<"h","i","n","d","u","i","s","m">>, <<"h","i","n","d","u","i","s","m","o">>,
    <<"h","i","n","d","ú">>, <<"h","o","p","e"," ","c","h","a","n","n","e","l">>,
    <<"h","o","s","a","n","n","a">>, <<"i","g","l","e","s","i","a">>, <<"i","m","a","m">>,
    <<"i","s","l","a","m">>, <<"i","s","l","a","m","i","c">>, <<"i","s","l","á","m","i","c","o">>,
    <<"i","u","r","d">>, <<"j","e","h","o","v","a">>, <<"j","e","h","o","v","a","h">>,
    <<"j","e","s","u","s">>, <<"j","e","w","i","s","h">>, <<"j","u","d","a","i","s","m">>,
    <<"j","u","d","a","í","s","m","o">>, <<"j","u","d","í","o">>, <<"k","a","r","m","a">>,
    <<"k","o","s","h","e","r">>, <<"l","e","n","t">>, <<"l","o","r","d">>,
    <<"m","a","n","t","r","a">>, <<"m","a","r","i","a">>, <<"m","a","r","y">>, <<"m","a","s","s">>,
    <<"m","a","t","r","i","m","o","n","i","o">>, <<"m","e","c","c","a">>,
    <<"m","e","d","i","n","a">>, <<"m","e","d","i","t","a","c","i","ó","n">>,
    <<"m","e","d","i","t","a","t","i","o","n">>, <<"m","e","t","h","o","d","i","s","t">>,
    <<"m","e","t","o","d","i","s","t","a">>, <<"m","e","z","q","u","i","t","a">>,
    <<"m","i","l","a","g","r","o">>, <<"m","i","n","i","s","t","e","r","i","o">>,
    <<"m","i","n","i","s","t","r","y">>, <<"m","i","r","a","c","l","e">>, <<"m","i","s","a">>,
    <<"m","i","s","i","o","n">>, <<"m","i","s","s","i","o","n">>,
    <<"m","o","n","a","s","t","e","r","i","o">>, <<"m","o","n","a","s","t","e","r","y">>,
    <<"m","o","n","j","e">>, <<"m","o","n","k">>, <<"m","o","r","m","o","n">>,
    <<"m","o","s","q","u","e">>, <<"m","u","h","a","m","m","a","d">>, <<"m","u","s","l","i","m">>,
    <<"n","a","v","i","d","a","d">>, <<"n","o","v","e","n","a">>,
    <<"n","o","v","o"," ","t","e","m","p","o">>,
    <<"n","u","e","v","o"," ","t","i","e","m","p","o">>, <<"o","b","i","s","p","o">>,
    <<"o","r","a","c","i","o","n">>, <<"o","r","d","e","n","a","c","i","o","n">>,
    <<"o","r","d","i","n","a","t","i","o","n">>,
    <<"p","a","d","r","e"," ","c","i","c","e","r","o">>, <<"p","a","p","a">>,
    <<"p","a","r","i","s","h">>, <<"p","a","r","r","o","q","u","i","a">>,
    <<"p","a","s","c","u","a">>, <<"p","a","s","s","o","v","e","r">>, <<"p","a","s","t","o","r">>,
    <<"p","e","c","a","d","o">>, <<"p","e","n","t","e","c","o","s","t","a","l">>,
    <<"p","e","n","t","e","c","o","s","t","e","s">>, <<"p","e","r","d","o","n">>,
    <<"p","o","p","e">>, <<"p","r","a","y","e","r">>, <<"p","r","e","a","c","h","e","r">>,
    <<"p","r","e","d","i","c","a","d","o","r">>, <<"p","r","i","e","s","t">>,
    <<"p","r","o","f","e","t","a">>, <<"p","r","o","p","h","e","t">>,
    <<"p","r","o","t","e","s","t","a","n","t">>, <<"p","r","o","t","e","s","t","a","n","t","e">>,
    <<"q","u","r","a","n">>, <<"r","a","b","b","i">>, <<"r","a","b","i","n","o">>,
    <<"r","a","m","a","d","a","n">>, <<"r","e","s","u","r","r","e","c","c","i","o","n">>,
    <<"r","e","s","u","r","r","e","c","t","i","o","n">>, <<"r","e","z","o">>,
    <<"r","o","s","a","r","i","o">>, <<"r","o","s","a","r","y">>,
    <<"s","a","c","e","r","d","o","t","e">>, <<"s","a","i","n","t">>, <<"s","a","l","a","h">>,
    <<"s","a","l","v","a","c","i","o","n">>, <<"s","a","l","v","a","t","i","o","n">>,
    <<"s","a","n","c","t","u","a","r","y">>, <<"s","a","n","t","a">>,
    <<"s","a","n","t","a"," ","c","e","c","i","l","i","a">>, <<"s","a","n","t","o">>,
    <<"s","a","n","t","u","a","r","i","o">>, <<"s","a","t"," ","7">>, <<"s","e","r","m","o","n">>,
    <<"s","e","ñ","o","r">>, <<"s","h","a","b","a","t">>, <<"s","h","a","b","b","a","t">>,
    <<"s","h","a","h","a","d","a">>, <<"s","i","n">>, <<"s","i","n","a","g","o","g","a">>,
    <<"s","p","i","r","i","t">>, <<"s","y","n","a","g","o","g","u","e">>, <<"t","b","n">>,
    <<"t","e","m","p","l","e">>, <<"t","e","m","p","l","o">>,
    <<"t","e","r","c","e","i","r","o"," ","a","n","j","o">>, <<"t","e","s","t","i","g","o">>,
    <<"t","o","r","a","h">>, <<"t","r","i","n","i","d","a","d">>, <<"t","r","i","n","i","t","y">>,
    <<"t","v"," ","c","a","n","c","a","o"," ","n","o","v","a">>,
    <<"t","v"," ","u","n","i","v","e","r","s","a","l">>, <<"v","a","t","i","c","a","n">>,
    <<"v","a","t","i","c","a","n","o">>, <<"v","i","a"," ","c","r","u","c","i","s">>,
    <<"v","i","r","g","e","n">>, <<"v","i","r","g","i","n">>, <<"w","i","t","n","e","s","s">>,
    <<"y","o","g","a">>, <<"y","o","m"," ","k","i","p","p","u","r">>, <<"z","a","k","a","t">>
  }

context_dependent_keywords ==
  {
    <<"a","m","o","r">>, <<"a","n","g","e","l">>, <<"a","n","j","o">>, <<"c","a","m","i","n","o">>,
    <<"c","i","e","l","o">>, <<"d","i","v","i","n","e">>, <<"d","i","v","i","n","o">>,
    <<"e","s","p","e","r","a","n","z","a">>, <<"e","t","e","r","n","a","l">>,
    <<"e","t","e","r","n","o">>, <<"f","a","i","t","h">>, <<"f","e">>, <<"h","e","a","v","e","n">>,
    <<"h","o","l","y">>, <<"h","o","p","e">>, <<"l","i","f","e">>, <<"l","i","g","h","t">>,
    <<"l","o","v","e">>, <<"l","u","z">>, <<"p","a","z">>, <<"p","e","a","c","e">>,
    <<"s","a","c","r","e","d">>, <<"s","a","g","r","a","d","o">>, <<"s","a","n","t","o">>,
    <<"v","i","d","a">>, <<"w","a","y">>
  }

religious_domains ==
  {
    <<"3","a","b","n">>, <<"a","d","v","e","n","t","i","s","t">>,
    <<"a","d","v","e","n","t","i","s","t","a">>, <<"b","a","p","t","i","s","t">>,
    <<"b","a","u","t","i","s","t","a">>, <<"b","e","t","h","e","l">>, <<"b","i","b","l","e">>,
    <<"b","i","b","l","i","a">>, <<"b","u","d","d","h","a">>, <<"b","u","d","d","h","i","s","m">>,
    <<"c","a","n","a","l","d","i","o","c","e","s","a","n","o">>,
    <<"c","a","n","a","l","l","u","z">>,
    <<"c","a","n","a","l","s","a","n","t","a","m","a","r","i","a">>,
    <<"c","a","n","c","a","o","n","o","v","a">>, <<"c","a","r","i","t","a","s">>,
    <<"c","a","t","h","o","l","i","c">>, <<"c","a","t","o","l","i","c","o">>,
    <<"c","h","r","i","s","t">>, <<"c","h","r","i","s","t","i","a","n">>,
    <<"c","h","u","r","c","h">>, <<"c","r","i","s","t","o">>, <<"d","i","o","c","e","s","e">>,
    <<"d","i","o","c","e","s","i","s">>, <<"d","i","o","s">>, <<"e","n","l","a","c","e">>,
    <<"e","v","a","n","g","e","l","i","c","a","l">>, <<"e","v","a","n","g","e","l","i","c","o">>,
    <<"e","w","t","n">>, <<"g","o","d">>, <<"g","o","s","p","e","l">>, <<"h","i","n","d","u">>,
    <<"h","i","n","d","u","i","s","m">>, <<"h","o","p","e","c","h","a","n","n","e","l">>,
    <<"i","g","l","e","s","i","a">>, <<"i","s","l","a","m","i","c">>,
    <<"i","s","l","a","m","i","c","o">>, <<"i","u","r","d">>, <<"j","e","h","o","v","a">>,
    <<"j","e","h","o","v","a","h">>, <<"j","e","s","u","s">>, <<"j","e","w","i","s","h">>,
    <<"j","u","d","a","i","s","m">>, <<"m","e","t","h","o","d","i","s","t">>,
    <<"m","e","t","o","d","i","s","t","a">>, <<"m","e","z","q","u","i","t","a">>,
    <<"m","i","n","i","s","t","e","r","i","o">>, <<"m","i","n","i","s","t","r","y">>,
    <<"m","i","s","i","o","n">>, <<"m","i","s","s","i","o","n">>,
    <<"m","o","n","a","s","t","e","r","y">>, <<"m","o","r","m","o","n">>,
    <<"m","o","s","q","u","e">>, <<"m","u","s","l","i","m">>,
    <<"n","o","v","o","t","e","m","p","o">>, <<"n","u","e","v","o","t","i","e","m","p","o">>,
    <<"p","a","d","r","e","c","i","c","e","r","o">>, <<"p","a","r","i","s","h">>,
    <<"p","a","r","r","o","q","u","i","a">>, <<"p","e","n","t","e","c","o","s","t","a","l">>,
    <<"s","a","i","n","t">>, <<"s","a","n","t","a","c","e","c","i","l","i","a">>,
    <<"s","a","n","t","o">>, <<"s","a","t","7">>, <<"s","i","n","a","g","o","g","a">>,
    <<"s","y","n","a","g","o","g","u","e">>, <<"t","b","n">>, <<"t","e","m","p","l","e">>,
    <<"t","e","m","p","l","o">>, <<"t","e","r","c","e","i","r","o","a","n","j","o">>,
    <<"t","e","s","t","i","g","o">>, <<"t","o","r","a","h">>,
    <<"t","v","u","n","i","v","e","r","s","a","l">>, <<"v","a","t","i","c","a","n">>,
    <<"v","a","t","i","c","a","n","o">>
  }

\* ------------------------------------------------------------------------
\* Compiled patterns (_compile_patterns).  Every pattern of the source has
\* one of three shapes, all starting with \b and an alternation `first`:
\*   "alts":  \b(first)\s+(second)      a second alternation, as a prefix
\*   "word":  \b(first)\s+\w+
\*   "end" :  \bfirst\b
\* re.IGNORECASE is modelled by matching against the lower-cased text.
\* The alternation santa? is written out as sant | santa.
\* ------------------------------------------------------------------------
religious_patterns ==
  <<
    [first |-> {<<"c","a","n","a","l">>, <<"t","v">>, <<"t","e","l","e","v","i","s","i","o","n">>},
     kind |-> "alts", second |-> {<<"r","e","l","i","g","i","o","s">>, <<"c","r","i","s","t","i","a","n">>, <<"c","a","t","o","l","i","c","o">>, <<"e","v","a","n","g","e","l","i","c","o">>}],
    [first |-> {<<"r","a","d","i","o">>, <<"t","v">>},
     kind |-> "alts", second |-> {<<"i","g","l","e","s","i","a">>, <<"c","h","u","r","c","h">>, <<"g","o","s","p","e","l">>}],
    [first |-> {<<"p","a","d","r","e">>, <<"p","a","s","t","o","r">>, <<"b","i","s","h","o","p">>, <<"o","b","i","s","p","o">>},
     kind |-> "word", second |-> {}],
    [first |-> {<<"s","a","n","t">>, <<"s","a","n","t","a">>, <<"s","a","i","n","t">>},
     kind |-> "word", second |-> {}],
    [first |-> {<<"v","i","r","g","e","n">>, <<"v","i","r","g","i","n">>},
     kind |-> "alts", second |-> {<<"m","a","r","i","a">>, <<"m","a","r","y">>}],
    [first |-> {<<"j","e","s","u","s">>, <<"c","h","r","i","s","t">>, <<"c","r","i","s","t","o">>},
     kind |-> "alts", second |-> {<<"t","v">>, <<"r","a","d","i","o">>, <<"c","a","n","a","l">>}],
    [first |-> {<<"d","i","o","s">>, <<"g","o","d">>},
     kind |-> "alts", second |-> {<<"t","v">>, <<"r","a","d","i","o">>, <<"c","a","n","a","l">>}],
    [first |-> {<<"m","i","n","i","s","t","e","r","i","o">>, <<"m","i","n","i","s","t","r","y">>},
     kind |-> "word", second |-> {}],
    [first |-> {<<"m","i","s","i","o","n">>, <<"m","i","s","s","i","o","n">>},
     kind |-> "word", second |-> {}],
    [first |-> {<<"i","g","l","e","s","i","a">>, <<"c","h","u","r","c","h">>},
     kind |-> "word", second |-> {}],
    [first |-> {<<"a","l">>, <<"e","l">>},
     kind |-> "alts", second |-> {<<"i","s","l","a","m">>, <<"q","u","r","a","n">>, <<"c","o","r","a","n">>}],
    [first |-> {<<"m","o","s","q","u","e">>},
     kind |-> "word", second |-> {}],
    [first |-> {<<"t","e","l","e","f","e">>},
     kind |-> "end", second |-> {}],
    [first |-> {<<"c","a","f","e">>},
     kind |-> "end", second |-> {}]
  >>

\* \w of Python's str patterns
IsWordChar(c) == c \in (LowerLetters \cup UpperLetters \cup Digits \cup {"_"})

\* \s of Python's str patterns (the space is the only whitespace modelled)
IsSpaceChar(c) == c = " "

IsWordAt(t, i) == i >= 1 /\ i <= Len(t) /\ IsWordChar(t[i])

\* \b between positions i-1 and i
WordBoundary(t, i) == IsWordAt(t, i - 1) # IsWordAt(t, i)

\* \s+ then the rest of the pattern: k >= 1 spaces from position j on
SpacesThen(p, t, j) ==
  \E k \in 1..Len(t) :
    /\ j + k - 1 <= Len(t)
    /\ \A m \in j..(j + k - 1) : IsSpaceChar(t[m])
    /\ IF p.kind = "alts"
         THEN \E b \in p.second : OccursAt(b, t, j + k)
         ELSE IsWordAt(t, j + k)

\* the pattern matches the (lower-cased) text t starting at position i
PatternMatchAt(p, t, i) ==
  /\ WordBoundary(t, i)
  /\ \E a \in p.first :
       /\ OccursAt(a, t, i)
       /\ IF p.kind = "end"
            THEN WordBoundary(t, i + Len(a))
            ELSE SpacesThen(p, t, i + Len(a))

\* bool(pattern.findall(text)) for the lower-cased text t
PatternFound(p, t) ==
  \E q \in {p} : \E i \in 1..Len(t) : PatternMatchAt(q, t, i)

\* ------------------------------------------------------------------------
\* Confidence arithmetic
\* ------------------------------------------------------------------------
One == 10000

HighPrecisionWeight == 8000

PatternWeight == 6000

ContextWeight == 3000

DomainWeight == 9000

SubdomainWeight == 7000

TextDetectThreshold == 5000

DomainDetectThreshold == 6000

DefaultThreshold == 5000

\* Addition of Python floats: in IEEE-754 double arithmetic 0.6 + 0.3 is
\* 0.8999999999999999, one ulp below 0.9; every other sum of the weights
\* that stays below 1.0 is the double nearest to the decimal sum.
FloatAdd(a, b) == IF a = 6000 /\ b = 3000 THEN 8999 ELSE a + b

\* `confidence += w` executed n times
RECURSIVE AddTimes(_, _, _)
AddTimes(c, w, n) == IF n = 0 THEN c ELSE AddTimes(FloatAdd(c, w), w, n - 1)

Min(a, b) == IF a <= b THEN a ELSE b

Max(a, b) == IF a >= b THEN a ELSE b

\* the result of an analyzer: (is_religious, confidence, reasons, matched_terms)
NoSignal == [detected |-> FALSE, confidence |-> 0, reasons |-> {}, matched_terms |-> {}]

\* ------------------------------------------------------------------------
\* Text analyzer (_analyze_text).  matched_terms holds the matched keywords
\* and, for each pattern that matched, the index of the pattern in place of
\* the substrings findall returned.
\* ------------------------------------------------------------------------
\* lines 175-180: the high-precision keywords occurring in text.lower()
HighPrecisionMatches(text_lower) ==
  TermsIn(high_precision_keywords, text_lower)

\* lines 186-192: the patterns that match the text, by position in the list
PatternMatches(text_lower) ==
  {i \in 1..Len(religious_patterns) : PatternFound(religious_patterns[i], text_lower)}

ContextMatches_ungated(text_lower, hp, pm) ==
  TermsIn(context_dependent_keywords, text_lower)

\* lines 198-205: context keywords count only beside another signal
ContextMatches(text_lower, hp, pm) ==
  IF hp # {} \/ pm # {}
    THEN TermsIn(context_dependent_keywords, text_lower)
    ELSE {}

TextConfidence_unclamped(hp, pm, cm) ==
  AddTimes(AddTimes(AddTimes(0, HighPrecisionWeight, Cardinality(hp)),
                    PatternWeight, Cardinality(pm)),
           ContextWeight, Cardinality(cm))

\* the confidence accumulated over the three loops, clamped (line 211)
TextConfidence(hp, pm, cm) ==
  Min(AddTimes(AddTimes(AddTimes(0, HighPrecisionWeight, Cardinality(hp)),
                        PatternWeight, Cardinality(pm)),
               ContextWeight, Cardinality(cm)),
      One)

TextSignal_detectAbovePattern(hp, pm, cm) ==
  [detected |-> TextConfidence(hp, pm, cm) > PatternWeight,
   confidence |-> TextConfidence(hp, pm, cm),
   reasons |-> (IF hp # {} THEN {"high_precision_keywords"} ELSE {})
                 \cup (IF pm # {} THEN {"pattern_match"} ELSE {})
                 \cup (IF cm # {} THEN {"context_keywords"} ELSE {}),
   matched_terms |-> hp \cup {<<"pattern", ToString(i)>> : i \in pm} \cup cm]

TextSignal(hp, pm, cm) ==
  [detected |-> TextConfidence(hp, pm, cm) >= TextDetectThreshold,
   confidence |-> TextConfidence(hp, pm, cm),
   reasons |-> (IF hp # {} THEN {"high_precision_keywords"} ELSE {})
                 \cup (IF pm # {} THEN {"pattern_match"} ELSE {})
                 \cup (IF cm # {} THEN {"context_keywords"} ELSE {}),
   matched_terms |-> hp \cup {<<"pattern", ToString(i)>> : i \in pm} \cup cm]

_analyze_text_caseSensitive(text) ==
  IF text = <<>> THEN NoSignal
  ELSE With(text, LAMBDA t :
         With(HighPrecisionMatches(t), LAMBDA hp :
           With(PatternMatches(Lower(t)), LAMBDA pm :
             With(ContextMatches(t, hp, pm), LAMBDA cm :
               TextSignal(hp, pm, cm)))))

\* lines 164-215
_analyze_text(text) ==
  IF text = <<>> THEN NoSignal
  ELSE With(Lower(text), LAMBDA t :
         With(HighPrecisionMatches(t), LAMBDA hp :
           With(PatternMatches(t), LAMBDA pm :
             With(ContextMatches(t, hp, pm), LAMBDA cm :
               TextSignal(hp, pm, cm)))))

\* ------------------------------------------------------------------------
\* urllib.parse.urlparse as _extract_domain uses it: the netloc of a URL
\* that starts with http:// or https://, or the ValueError it raises.
\* strict tells whether the interpreter validates a bracketed host
\* (CPython from 3.11.4 on does, earlier versions do not).
\* ------------------------------------------------------------------------
S_http == <<"h","t","t","p",":","/","/">>

S_https == <<"h","t","t","p","s",":","/","/">>

DigitVal(c) ==
  CASE c = "0" -> 0 [] c = "1" -> 1 [] c = "2" -> 2 [] c = "3" -> 3
    [] c = "4" -> 4 [] c = "5" -> 5 [] c = "6" -> 6 [] c = "7" -> 7
    [] c = "8" -> 8 [] c = "9" -> 9 [] OTHER -> 0

RECURSIVE DecimalVal(_)
DecimalVal(s) ==
  IF s = <<>> THEN 0
  ELSE 10 * DecimalVal(SubSeq(s, 1, Len(s) - 1)) + DigitVal(s[Len(s)])

\* ipaddress.IPv4Address accepts s
ValidIPv4(s) ==
  LET octets == Split(s, ".")
  IN  /\ Len(octets) = 4
      /\ \A i \in 1..4 :
           /\ octets[i] # <<>>
           /\ Len(octets[i]) <= 3
           /\ \A j \in 1..Len(octets[i]) : octets[i][j] \in Digits
           /\ (Len(octets[i]) > 1 => octets[i][1] # "0")
           /\ DecimalVal(octets[i]) <= 255

ValidHextet(s) ==
  /\ s # <<>>
  /\ Len(s) <= 4
  /\ \A j \in 1..Len(s) : s[j] \in HexDigits

\* ipaddress.IPv6Address accepts s (IPv6Address._ip_int_from_string)
ValidIPv6(s) ==
  LET raw   == Split(s, ":")
      last  == raw[Len(raw)]
      v4    == "." \in Range(last)
      \* an IPv4 suffix is replaced by two hextets
      parts == IF v4 THEN SubSeq(raw, 1, Len(raw) - 1) \o <<<<"0">>, <<"0">>>>
               ELSE raw
      n     == Len(parts)
      skips == {i \in 2..(n - 1) : parts[i] = <<>>}
  IN  /\ s # <<>>
      /\ Len(raw) >= 3
      /\ v4 => ValidIPv4(last)
      /\ n <= 9
      /\ Cardinality(skips) <= 1
      /\ IF skips # {}
           THEN LET k  == CHOOSE i \in skips : TRUE
                    hi == IF parts[1] = <<>> THEN k - 2 ELSE k - 1
                    lo == IF parts[n] = <<>> THEN n - k - 1 ELSE n - k
                IN  /\ (parts[1] = <<>> => hi = 0)
                    /\ (parts[n] = <<>> => lo = 0)
                    /\ 8 - (hi + lo) >= 1
                    /\ \A i \in 1..hi : ValidHextet(parts[i])
                    /\ \A i \in (n - lo + 1)..n : ValidHextet(parts[i])
           ELSE /\ n = 8
                /\ \A i \in 1..n : ValidHextet(parts[i])

\* urllib.parse._check_bracketed_host does not raise
BracketedHostOk(h) ==
  IF h # <<>> /\ h[1] = "v"
    THEN \E d \in 3..(Len(h) - 1) :
           /\ h[d] = "."
           /\ \A j \in 2..(d - 1) : h[j] \in HexDigits
    ELSE ValidIPv6(h)

\* netloc.partition('[')[2].partition(']')[0]
BracketedHost(netloc) ==
  LET open  == FindFrom(netloc, {"["}, 1)
      rest  == Drop(netloc, open + 1)
      close == FindFrom(rest, {"]"}, 1)
  IN  IF close = 0 THEN rest ELSE SubSeq(rest, 1, close - 1)

\* the netloc of a URL with scheme: up to the first of / ? #
Netloc(url) ==
  With(Drop(url, (IF StartsWith(url, S_http) THEN Len(S_http) ELSE Len(S_https)) + 1),
       LAMBDA rest :
         With(FindFrom(rest, {"/", "?", "#"}, 1), LAMBDA delim :
           IF delim = 0 THEN rest ELSE SubSeq(rest, 1, delim - 1)))

\* urlsplit raises ValueError for this netloc
NetlocRaises(netloc, strict) ==
  \E open \in {"[" \in Range(netloc)}, close \in {"]" \in Range(netloc)} :
    \/ open # close
    \/ open /\ close /\ strict /\ ~BracketedHostOk(BracketedHost(netloc))

urlparse(url, strict) ==
  With(Netloc(url), LAMBDA netloc :
    [raised |-> NetlocRaises(netloc, strict), netloc |-> netloc])

\* ------------------------------------------------------------------------
\* Domain extractor
\* ------------------------------------------------------------------------
\* the URL with the scheme added when it has none (lines 150-151)
WithScheme(url) ==
  IF StartsWith(url, S_http) \/ StartsWith(url, S_https) THEN url
  ELSE S_http \o url

\* domain.split(':')[0] when the netloc holds a colon (lines 157-158)
RemovePort(domain) ==
  IF ":" \in Range(domain) THEN Split(domain, ":")[1] ELSE domain

\* ImprovedReligiousFilter._extract_domain
_extract_domain(url, strict) ==
  IF url = <<>> THEN <<>>
  ELSE With(WithScheme(url), LAMBDA u :
         With(urlparse(u, strict), LAMBDA parsed :
           IF parsed.raised THEN Lower(u)
           ELSE With(Lower(parsed.netloc), LAMBDA d : RemovePort(d))))

\* extract_domain of filter_bitel_channels.py and filter_channels.py
extract_domain(url, strict) ==
  IF url = <<>> THEN <<>>
  ELSE With(WithScheme(url), LAMBDA u :
         With(urlparse(u, strict), LAMBDA parsed :
           IF parsed.raised THEN <<>>
           ELSE With(Lower(parsed.netloc), LAMBDA d : RemovePort(d))))

\* ------------------------------------------------------------------------
\* Domain analyzer (_analyze_domain)
\* ------------------------------------------------------------------------
DomainMatches_none(domain) == {}

\* lines 228-232: the domain terms that are substrings of the host
DomainMatches(domain) == TermsIn(religious_domains, domain)

\* lines 235-241: the positions of the labels of the host that are domain terms
SubdomainMatches(parts) ==
  {i \in 1..Len(parts) : parts[i] \in religious_domains}

DomainConfidence_noSubdomain(dm, sm) ==
  Min(AddTimes(0, DomainWeight, Cardinality(dm)), One)

DomainConfidence(dm, sm) ==
  Min(AddTimes(AddTimes(0, DomainWeight, Cardinality(dm)),
               SubdomainWeight, Cardinality(sm)),
      One)

DomainSignal(dm, sm, parts) ==
  [detected |-> DomainConfidence(dm, sm) >= DomainDetectThreshold,
   confidence |-> DomainConfidence(dm, sm),
   reasons |-> (IF dm # {} THEN {"religious_domain"} ELSE {})
                 \cup (IF sm # {} THEN {"religious_subdomain"} ELSE {}),
   matched_terms |-> dm \cup {parts[i] : i \in sm}]

\* the analysis of an extracted host (lines 220-246)
AnalyzeHost(domain) ==
  IF domain = <<>> THEN NoSignal
  ELSE With(DomainMatches(domain), LAMBDA dm :
         With(Split(domain, "."), LAMBDA parts :
           With(SubdomainMatches(parts), LAMBDA sm :
             DomainSignal(dm, sm, parts))))

_analyze_domain(url, strict) ==
  With(_extract_domain(url, strict), LAMBDA domain : AnalyzeHost(domain))

\* ------------------------------------------------------------------------
\* Channel classifier (analyze_channel)
\* ------------------------------------------------------------------------
\* f"{name} {category} {group} {description}".strip()
CombinedText(cd) ==
  Strip(cd.name \o <<" ">> \o cd.category \o <<" ">> \o cd.group
          \o <<" ">> \o cd.description)

\* confidence * 1.2
Boost(c) == (c * 12) \div 10

\* the merge of the two signals (lines 266-274)
CombinedConfidence_unclamped(text, dom) ==
  IF text.detected /\ dom.detected
    THEN Boost(Max(text.confidence, dom.confidence))
    ELSE Max(text.confidence, dom.confidence)

\* lines 268 and 273-274
CombinedConfidence(text, dom) ==
  IF text.detected /\ dom.detected
    THEN Min(Boost(Max(text.confidence, dom.confidence)), One)
    ELSE Max(text.confidence, dom.confidence)

Combine(text, dom, cd) ==
  [is_religious |-> text.detected \/ dom.detected,
   confidence |-> CombinedConfidence(text, dom),
   reasons |-> text.reasons \cup dom.reasons,
   matched_terms |-> text.matched_terms \cup dom.matched_terms,
   channel_info |-> cd]

analyze_channel(cd, strict) ==
  With(_analyze_text(CombinedText(cd)), LAMBDA text :
    With(_analyze_domain(cd.url, strict), LAMBDA dom :
      Combine(text, dom, cd)))

\* ------------------------------------------------------------------------
\* Batch driver (filter_csv, lines 300-328): the body of the loop over the
\* rows of the reader.  A row is a sequence of fields.
\* ------------------------------------------------------------------------
\* row[i] if len(row) > i else ''   (i is the 0-based index of the source)
Field(row, i) == IF Len(row) > i THEN row[i + 1] ELSE <<>>

\* the column mapping of lines 305-311
ChannelData(row) ==
  [name |-> Field(row, 1),
   url |-> Field(row, 0),
   category |-> Field(row, 2),
   group |-> Field(row, 3),
   description |-> Field(row, 4)]

PassesThreshold_strict(result, confidence_threshold) ==
  result.is_religious /\ result.confidence > confidence_threshold

\* the test of line 316
PassesThreshold(result, confidence_threshold) ==
  result.is_religious /\ result.confidence >= confidence_threshold

LoopBody_dropShort(acc, row, result, confidence_threshold) ==
  IF Len(row) >= 2
    THEN IF PassesThreshold(result, confidence_threshold)
           THEN [filtered_channels |-> Append(acc.filtered_channels,
                                              [row |-> row, result |-> result]),
                 remaining_channels |-> acc.remaining_channels,
                 total_channels |-> acc.total_channels + 1]
           ELSE [filtered_channels |-> acc.filtered_channels,
                 remaining_channels |-> Append(acc.remaining_channels, row),
                 total_channels |-> acc.total_channels + 1]
    ELSE [filtered_channels |-> acc.filtered_channels,
          remaining_channels |-> acc.remaining_channels,
          total_channels |-> acc.total_channels + 1]

LoopBody_oneColumn(acc, row, result, confidence_threshold) ==
  IF Len(row) >= 1
    THEN IF PassesThreshold(result, confidence_threshold)
           THEN [filtered_channels |-> Append(acc.filtered_channels,
                                              [row |-> row, result |-> result]),
                 remaining_channels |-> acc.remaining_channels,
                 total_channels |-> acc.total_channels + 1]
           ELSE [filtered_channels |-> acc.filtered_channels,
                 remaining_channels |-> Append(acc.remaining_channels, row),
                 total_channels |-> acc.total_channels + 1]
    ELSE [filtered_channels |-> acc.filtered_channels,
          remaining_channels |-> Append(acc.remaining_channels, row),
          total_channels |-> acc.total_channels + 1]

LoopBody_prepend(acc, row, result, confidence_threshold) ==
  IF Len(row) >= 2
    THEN IF PassesThreshold(result, confidence_threshold)
           THEN [filtered_channels |-> Append(acc.filtered_channels,
                                              [row |-> row, result |-> result]),
                 remaining_channels |-> acc.remaining_channels,
                 total_channels |-> acc.total_channels + 1]
           ELSE [filtered_channels |-> acc.filtered_channels,
                 remaining_channels |-> <<row>> \o acc.remaining_channels,
                 total_channels |-> acc.total_channels + 1]
    ELSE [filtered_channels |-> acc.filtered_channels,
          remaining_channels |-> Append(acc.remaining_channels, row),
          total_channels |-> acc.total_channels + 1]

\* one iteration of the loop: acc holds filtered_channels,
\* remaining_channels and total_channels; result is the verdict of
\* analyze_channel for the row (used only when the row has two columns)
LoopBody(acc, row, result, confidence_threshold) ==
  IF Len(row) >= 2
    THEN IF PassesThreshold(result, confidence_threshold)
           THEN [filtered_channels |-> Append(acc.filtered_channels,
                                              [row |-> row, result |-> result]),
                 remaining_channels |-> acc.remaining_channels,
                 total_channels |-> acc.total_channels + 1]
           ELSE [filtered_channels |-> acc.filtered_channels,
                 remaining_channels |-> Append(acc.remaining_channels, row),
                 total_channels |-> acc.total_channels + 1]
    ELSE [filtered_channels |-> acc.filtered_channels,
          remaining_channels |-> Append(acc.remaining_channels, row),
          total_channels |-> acc.total_channels + 1]

\* the accumulators of filter_csv before the first row
EmptyAcc == [filtered_channels |-> <<>>, remaining_channels |-> <<>>, total_channels |-> 0]

\* ------------------------------------------------------------------------
\* Inputs of the model
\* ------------------------------------------------------------------------
\* The keyword lists of the other filters.  A character outside Latin-1 is
\* written as the string "U+" followed by its code point.
\* get_pluto_keywords of filter_pluto_channels.py
pluto_keywords ==
  {

    <<"c","f","d","-","v","4","-","s","e","r","v","i","c","e","-","c","h","a","n","n","e","l","-","s","t","i","t","c","h","e","r","-","u","s","e","1","-","1",".","p","r","d",".","p","l","u","t","o",".","t","v">>,
    <<"p","l","u","t","o"," ","t","v">>, <<"p","l","u","t","o",".","t","v">>,
    <<"p","l","u","t","o","t","v">>,
    <<"s","e","r","v","i","c","e","-","s","t","i","t","c","h","e","r",".","c","l","u","s","t","e","r","s",".","p","l","u","t","o",".","t","v">>
  }

\* get_political_keywords of filter_political_channels.py
political_keywords ==
  {
    <<"a","l","c","a","l","d","í","a">>, <<"a","s","a","m","b","l","e","a">>,
    <<"a","s","s","e","m","b","l","y">>, <<"a","y","u","n","t","a","m","i","e","n","t","o">>,
    <<"c","h","a","m","b","e","r">>, <<"c","i","t","y"," ","h","a","l","l">>,
    <<"c","o","n","g","r","e","s","o">>, <<"c","o","n","g","r","e","s","s">>,
    <<"c","o","n","t","r","o","v","e","r","s","i","a"," ","t","v">>, <<"c","á","m","a","r","a">>,
    <<"d","i","p","u","t","a","d","o","s">>, <<"e","s","t","a","t","a","l">>,
    <<"f","e","d","e","r","a","l">>, <<"g","o","b","i","e","r","n","o">>,
    <<"g","o","v","e","r","n","m","e","n","t">>,
    <<"g","u","b","e","r","n","a","m","e","n","t","a","l">>,
    <<"i","n","s","t","i","t","u","c","i","o","n","a","l">>,
    <<"i","n","s","t","i","t","u","t","i","o","n","a","l">>,
    <<"l","e","g","i","s","l","a","t","i","v","e">>,
    <<"l","e","g","i","s","l","a","t","i","v","o">>,
    <<"m","a","r","i","n"," ","t","v"," ","g","o","v","e","r","n","m","e","n","t">>,
    <<"m","i","n","i","s","t","e","r","i","o">>, <<"m","i","n","i","s","t","r","y">>,
    <<"m","u","n","i","c","i","p","a","l">>, <<"o","f","f","i","c","i","a","l">>,
    <<"o","f","i","c","i","a","l">>, <<"p","a","r","l","a","m","e","n","t","o">>,
    <<"p","a","r","l","i","a","m","e","n","t">>,
    <<"p","a","r","l","i","a","m","e","n","t"," ","o","f"," ","g","u","y","a","n","a">>,
    <<"p","o","l","i","t","i","c","a","l">>, <<"p","o","l","i","t","i","c","s">>,
    <<"p","o","l","í","t","i","c","a">>, <<"p","o","l","í","t","i","c","o">>,
    <<"p","r","e","s","i","d","e","n","c","i","a">>, <<"p","r","e","s","i","d","e","n","c","y">>,
    <<"p","r","o","v","i","n","c","i","a","l">>, <<"r","e","g","i","o","n","a","l">>,
    <<"s","e","n","a","d","o">>, <<"s","e","n","a","t","e">>, <<"s","t","a","t","e">>,
    <<"t","o","w","n"," ","h","a","l","l">>
  }

\* get_religious_keywords of filter_religious_channels.py
religious_keywords ==
  {
    <<"3","a","b","n">>, <<"a","d","v","e","n","t","i","s","t","a">>, <<"a","n","g","e","l">>,
    <<"a","n","j","o">>, <<"b","e","t","h","e","l">>,
    <<"c","a","n","a","l"," ","c","i","n","e"," ","d","i","o","s">>,
    <<"c","a","n","a","l"," ","d","i","o","c","e","s","a","n","o">>,
    <<"c","a","n","a","l"," ","l","u","z">>,
    <<"c","a","n","a","l"," ","o","r","a","c","i","ó","n">>,
    <<"c","a","n","a","l"," ","s","a","n","t","a"," ","m","a","r","í","a">>,
    <<"c","a","t","ó","l","i","c","o">>, <<"c","r","i","s","t","i","a","n","o">>,
    <<"c","á","r","i","t","a","s">>, <<"d","i","o","c","e","s","a","n","o">>, <<"d","i","o","s">>,
    <<"d","i","y","a","n","e","t">>, <<"e","n","l","a","c","e">>, <<"e","w","t","n">>,
    <<"g","o","s","p","e","l">>, <<"h","o","p","e"," ","c","h","a","n","n","e","l">>,
    <<"h","o","s","a","n","n","a">>, <<"i","g","l","e","s","i","a">>, <<"i","u","r","d">>,
    <<"j","e","s","u","s">>, <<"n","o","v","o"," ","t","e","m","p","o">>,
    <<"n","u","e","v","o"," ","t","i","e","m","p","o">>, <<"o","r","a","c","i","ó","n">>,
    <<"p","a","d","r","e"," ","c","i","c","e","r","o">>, <<"r","e","l","i","g","i","o","s","o">>,
    <<"s","a","n","t","a"," ","c","e","c","i","l","i","a">>,
    <<"s","a","n","t","a"," ","m","a","r","í","a">>, <<"s","a","n","t","o">>,
    <<"s","a","t"," ","7">>, <<"s","o","l","i","d","a","r","i","a">>,
    <<"s","o","l","i","d","a","r","i","o">>, <<"t","b","n">>,
    <<"t","e","r","c","e","i","r","o"," ","a","n","j","o">>,
    <<"t","v"," ","c","a","n","c","a","o"," ","n","o","v","a">>,
    <<"t","v"," ","u","n","i","v","e","r","s","a","l">>, <<"ç","o","c","u","k">>
  }

\* get_language_keywords of filter_religious_channels.py
language_keywords ==
  {
    <<"a","l"," ","j","a","z","e","e","r","a"," ","a","r","a","b","i","c">>,
    <<"a","l"," ","j","a","z","e","e","r","a"," ","m","u","b","a","s","h","e">>,
    <<"a","r","a","b","i","c">>, <<"b","a","h","o","r","i","s","t","o","n">>,
    <<"r","u","s","s","i","a","n">>, <<"t","r","t">>,
    <<"U+0440","U+0443","U+0441","U+0441","U+043A","U+0438","U+0439">>,
    <<"U+0627","U+0644","U+0639","U+0631","U+0628","U+064A","U+0629">>
  }

\* ------------------------------------------------------------------------
\* The row tests of the other filters
\* ------------------------------------------------------------------------
\* filter_pluto_channels.py, lines 22-35
is_pluto_channel(channel_name, channel_url) ==
  \E name_lower \in {Lower(channel_name)}, url_lower \in {Lower(channel_url)} :
    \E keyword \in pluto_keywords :
      Contains(name_lower, keyword) \/ Contains(url_lower, keyword)

\* filter_political_channels.py, lines 33-48
is_political_channel(name, url) ==
  /\ name # <<>>
  /\ \E name_lower \in {Lower(name)}, url_lower \in {Lower(url)} :
       \E keyword \in political_keywords :
         Contains(name_lower, keyword) \/ Contains(url_lower, keyword)

\* filter_religious_channels.py, lines 39-67
is_filtered_channel(channel_name, religious, language) ==
  /\ channel_name # <<>>
  /\ \E name_lower \in {Lower(channel_name)} :
       \/ \E keyword \in religious : Contains(name_lower, Lower(keyword))
       \/ \E keyword \in language : Contains(name_lower, Lower(keyword))

\* the row is removed by the loop of filter_pluto_channels (lines 47-59)
PlutoRemoves(row) == Len(row) >= 3 /\ is_pluto_channel(row[2], row[3])

\* the row is removed by the loop of filter_political_channels (76-88)
PoliticalRemoves(row) ==
  Len(row) >= 2 /\ is_political_channel(row[2], Field(row, 2))

\* the row is removed by the loop of filter_channels (94-101)
KeywordRemoves(row) ==
  Len(row) >= 2 /\ is_filtered_channel(row[2], religious_keywords, language_keywords)
W_Iglesia == <<"I","g","l","e","s","i","a">>

W_TV == <<"T","V">>

W_Canal == <<"C","a","n","a","l">>

W_Luz == <<"L","u","z">>

W_Esperanza == <<"E","s","p","e","r","a","n","z","a">>

W_Telefe == <<"T","e","l","e","f","e">>

W_Padre == <<"P","a","d","r","e">>

W_Casino == <<"C","a","s","i","n","o">>

W_News == <<"N","e","w","s">>

W_Cafe == <<"C","a","f","e">>

T_IglesiaAdventistaTV == <<"I","g","l","e","s","i","a"," ","A","d","v","e","n","t","i","s","t","a"," ","T","V">>

T_CanalDeLuzYEsperanza == <<"C","a","n","a","l"," ","d","e"," ","L","u","z"," ","y"," ","E","s","p","e","r","a","n","z","a">>

T_GenericNews == <<"G","e","n","e","r","i","c"," ","N","e","w","s">>

T_SportsChannel == <<"S","p","o","r","t","s"," ","C","h","a","n","n","e","l">>

T_PadrePio == <<"P","a","d","r","e"," ","P","i","o">>

T_IglesiaTV == <<"I","g","l","e","s","i","a"," ","T","V">>

U_example == <<"h","t","t","p",":","/","/","e","x","a","m","p","l","e",".","c","o","m">>

U_bitel == <<"h","t","t","p",":","/","/","t","v","3","6","0",".","b","i","t","e","l",".","c","o","m",".","p","e","/","l","i","v","e">>

U_ewtn == <<"h","t","t","p",":","/","/","e","w","t","n",".","c","o","m">>

U_ewtn_bare == <<"e","w","t","n",".","c","o","m">>

U_xewtn_port == <<"h","t","t","p",":","/","/","x","e","w","t","n",".","c","o","m",":","8","0","/","a">>

U_ewtn_unclosed == <<"[","e","w","t","n">>

K_God == <<"G","o","d">>

K_v6 == <<"[",":",":","1","]">>


U_iglesia_host == <<"i","g","l","e","s","i","a",".","e","x","a","m","p","l","e",".","c","o","m">>

W_Santo == <<"S","a","n","t","o">>

T_PlutoTVCine == <<"P","l","u","t","o"," ","T","V"," ","C","i","n","e">>

T_CongresoTV == <<"C","o","n","g","r","e","s","o"," ","T","V">>

H_id == <<"i","d">>

H_name == <<"n","a","m","e">>

H_url == <<"u","r","l">>
\* words the generated texts are made of
Words ==
  {W_Iglesia, W_TV, W_Canal, W_Luz, W_Esperanza, W_Telefe, W_Padre,
   W_Casino, W_News, W_Cafe, W_Santo}

\* the texts given to the text analyzer: up to MaxWords words joined by
\* single spaces, the empty text, and the names of the four scenarios
TextPool ==
  {JoinWords(ws) : ws \in SeqsUpTo(Words, 0, MaxWords)}
    \cup {T_IglesiaAdventistaTV, T_CanalDeLuzYEsperanza, T_GenericNews,
          T_SportsChannel}

\* pieces the generated URL strings are made of
UrlTokens ==
  {S_http, K_God, K_v6, <<"[">>, <<"]">>, <<":">>, <<"/">>, <<"@">>,
   <<".">>, <<"1">>}

\* the strings given to the domain extractor
UrlPool ==
  {Concat(ts) : ts \in SeqsUpTo(UrlTokens, 0, MaxUrlTokens)}
    \cup {U_iglesia_host, U_ewtn, U_xewtn_port, U_bitel}

\* the channels given to analyze_channel
ChannelNames ==
  {<<>>, T_GenericNews, T_IglesiaAdventistaTV, T_CanalDeLuzYEsperanza,
   T_PadrePio, W_Telefe}

ChannelUrls ==
  {<<>>, <<"4">>, U_ewtn_bare, U_xewtn_port, U_example, U_ewtn_unclosed}

ChannelCategories == {<<>>, U_ewtn, W_Luz}

ChannelPool ==
  {[name |-> n, url |-> u, category |-> c, group |-> <<>>, description |-> <<>>] :
     n \in ChannelNames, u \in ChannelUrls, c \in ChannelCategories}

\* the rows of the input table: the four scenarios of the documentation
\* (id, name, url), rows with a missing or empty name, a blank line, a
\* pattern-only name, and a row both analyzers detect
RowPool ==
  {<<<<"1">>, T_IglesiaAdventistaTV, U_example>>,
   <<<<"2">>, T_SportsChannel, U_bitel>>,
   <<<<"3">>, T_CanalDeLuzYEsperanza, <<>>>>,
   <<<<"4">>, T_GenericNews, U_ewtn>>,
   <<U_ewtn_bare, <<>>>>,
   <<U_ewtn_bare>>,
   <<>>,
   <<<<"5">>, T_PadrePio>>,
   <<U_ewtn_bare, T_IglesiaTV>>}

\* the values of confidence_threshold: the default 0.5, 0.6, 0.85 and 1.0
Thresholds == {DefaultThreshold, 6000, 8500, One}

\* ------------------------------------------------------------------------
\* State
\* ------------------------------------------------------------------------
VARIABLES
  strict,               \* the interpreter validates bracketed hosts
  verdicts,             \* analyze_channel on the rows of the pool
  signals,              \* the two analyzers on the rows of the pool
  input_rows,           \* the rows csv.reader yields for input_file
  confidence_threshold, \* argument of filter_csv
  pc,                   \* position in filter_csv
  filtered_channels,    \* local of filter_csv
  remaining_channels,   \* local of filter_csv
  total_channels,       \* local of filter_csv
  files,                \* the tables the run has written, by file argument
  ret,                  \* the value filter_csv returned
  text,                 \* argument of _analyze_text
  text_result,          \* its result
  url,                  \* argument of the domain extractor / analyzer
  dpc,                  \* position in the domain run
  domain,               \* _extract_domain(url)
  domain_again,         \* _extract_domain("http://" + domain)
  bitel_domain,         \* extract_domain(url) of filter_bitel_channels.py
  bitel_again,          \* extract_domain("http://" + bitel_domain)
  domain_result,        \* _analyze_domain(url)
  channel_data,         \* argument of analyze_channel
  channel_result,       \* its result
  flags,                \* the row tests of the other filters on the rows of the pool
  stages,               \* the two filters that are chained
  cpc,                  \* the next run of the chain, 1..4, or 5 when done
  chain_files,          \* the tables of the chain, by file
  reports               \* what the run that wrote a file reported, by file

driver_vars ==
  <<input_rows, confidence_threshold, pc, filtered_channels,
    remaining_channels, total_channels, files, ret>>

text_vars == <<text, text_result>>

domain_vars ==
  <<url, dpc, domain, domain_again, bitel_domain, bitel_again, domain_result>>

channel_vars == <<channel_data, channel_result>>

chain_vars == <<flags, stages, cpc, chain_files, reports>>

probe_vars == <<text_vars, domain_vars, channel_vars, chain_vars>>

vars == <<strict, verdicts, signals, driver_vars, probe_vars>>

NoReturn ==
  [kind |-> "none", total_channels |-> 0, filtered_channels |-> 0,
   remaining_channels |-> 0, filtered_details |-> <<>>]

ErrorReturn ==
  [kind |-> "error", total_channels |-> 0, filtered_channels |-> 0,
   remaining_channels |-> 0, filtered_details |-> <<>>]

Pending == [done |-> FALSE, value |-> <<>>]

Done(v) == [done |-> TRUE, value |-> v]

\* the parts of the state a specification does not use
DriverIdle ==
  /\ verdicts = <<>>
  /\ signals = <<>>
  /\ input_rows = <<>>
  /\ confidence_threshold = DefaultThreshold
  /\ pc = "idle"
  /\ filtered_channels = <<>>
  /\ remaining_channels = <<>>
  /\ total_channels = 0
  /\ files = {}
  /\ ret = NoReturn

TextIdle == text = <<>> /\ text_result = Pending

DomainIdle ==
  /\ url = <<>>
  /\ dpc = "idle"
  /\ domain = Pending
  /\ domain_again = Pending
  /\ bitel_domain = Pending
  /\ bitel_again = Pending
  /\ domain_result = Pending

ChannelIdle == channel_data = <<>> /\ channel_result = Pending

ChainIdle ==
  /\ flags = <<>>
  /\ stages = <<>>
  /\ cpc = 0
  /\ chain_files = <<>>
  /\ reports = <<>>

\* ------------------------------------------------------------------------
\* filter_csv
\* ------------------------------------------------------------------------
\* the results of the two analyzers for a channel (lines 261 and 264)
Signals(cd, s) ==
  [text |-> _analyze_text(CombinedText(cd)), dom |-> _analyze_domain(cd.url, s)]

\* analyze_channel and the analyzers are pure functions: their values on
\* the rows of the pool are computed once, here, and looked up by the loop
Init ==
  /\ strict \in BOOLEAN
  /\ verdicts = [r \in RowPool |-> analyze_channel(ChannelData(r), strict)]
  /\ signals = [r \in RowPool |-> Signals(ChannelData(r), strict)]
  /\ input_rows \in SeqsUpTo(RowPool, 0, MaxRows)
  /\ confidence_threshold \in Thresholds
  /\ pc = "start"
  /\ filtered_channels = <<>>
  /\ remaining_channels = <<>>
  /\ total_channels = 0
  /\ files = {}
  /\ ret = NoReturn
  /\ TextIdle /\ DomainIdle /\ ChannelIdle /\ ChainIdle

\* open(input_file) succeeds (line 297)
OpenInput ==
  /\ pc = "start"
  /\ pc' = "reading"
  /\ UNCHANGED <<strict, verdicts, signals, input_rows, confidence_threshold, filtered_channels,
                 remaining_channels, total_channels, files, ret, probe_vars>>

\* open(input_file) raises: the except clause returns the error (342-344)
OpenInputFails ==
  /\ pc = "start"
  /\ pc' = "done"
  /\ ret' = ErrorReturn
  /\ UNCHANGED <<strict, verdicts, signals, input_rows, confidence_threshold, filtered_channels,
                 remaining_channels, total_channels, files, probe_vars>>

\* one iteration of `for row in reader` (300-328)
ReadRow ==
  /\ pc = "reading"
  /\ total_channels < Len(input_rows)
  /\ LET row == input_rows[total_channels + 1]
         acc == LoopBody([filtered_channels |-> filtered_channels,
                          remaining_channels |-> remaining_channels,
                          total_channels |-> total_channels],
                         row, verdicts[row], confidence_threshold)
     IN  /\ filtered_channels' = acc.filtered_channels
         /\ remaining_channels' = acc.remaining_channels
         /\ total_channels' = acc.total_channels
  /\ UNCHANGED <<strict, verdicts, signals, input_rows, confidence_threshold, pc, files, ret, probe_vars>>

ReadFails_partialOutput ==
  /\ pc = "reading"
  /\ pc' = "done"
  /\ ret' = ErrorReturn
  /\ files' = {[file |-> "output_file", rows |-> remaining_channels]}
  /\ UNCHANGED <<strict, verdicts, signals, input_rows, confidence_threshold, filtered_channels,
                 remaining_channels, total_channels, probe_vars>>

\* the reader raises while reading (decoding or csv error): except clause
ReadFails ==
  /\ pc = "reading"
  /\ pc' = "done"
  /\ ret' = ErrorReturn
  /\ UNCHANGED <<strict, verdicts, signals, input_rows, confidence_threshold, filtered_channels,
                 remaining_channels, total_channels, files, probe_vars>>

\* the reader is exhausted and the input file is closed (329)
EndOfInput ==
  /\ pc = "reading"
  /\ total_channels = Len(input_rows)
  /\ pc' = "writing"
  /\ UNCHANGED <<strict, verdicts, signals, input_rows, confidence_threshold, filtered_channels,
                 remaining_channels, total_channels, files, ret, probe_vars>>

WrittenTables_flagged(remaining, filtered) ==
  {[file |-> "output_file", rows |-> [i \in 1..Len(filtered) |-> filtered[i].row]]}

\* the tables written to the file arguments of filter_csv after the loop
\* (330-333): output_file receives remaining_channels
WrittenTables(remaining, filtered) ==
  {[file |-> "output_file", rows |-> remaining]}

\* the dictionary returned on success (335-340)
Stats(total, filtered, remaining) ==
  [kind |-> "stats",
   total_channels |-> total,
   filtered_channels |-> Len(filtered),
   remaining_channels |-> Len(remaining),
   filtered_details |-> filtered]

\* the exit status of main for what filter_csv returned (362-381)
main(stats) == IF stats.kind = "error" THEN 1 ELSE 0

\* the output is written and the statistics are returned (330-340)
WriteOutput ==
  /\ pc = "writing"
  /\ files' = WrittenTables(remaining_channels, filtered_channels)
  /\ ret' = Stats(total_channels, filtered_channels, remaining_channels)
  /\ pc' = "done"
  /\ UNCHANGED <<strict, verdicts, signals, input_rows, confidence_threshold, filtered_channels,
                 remaining_channels, total_channels, probe_vars>>

\* open(output_file, 'w') raises: except clause
WriteFails ==
  /\ pc = "writing"
  /\ pc' = "done"
  /\ ret' = ErrorReturn
  /\ UNCHANGED <<strict, verdicts, signals, input_rows, confidence_threshold, filtered_channels,
                 remaining_channels, total_channels, files, probe_vars>>

Next ==
  \/ OpenInput
  \/ OpenInputFails
  \/ ReadRow
  \/ ReadFails
  \/ EndOfInput
  \/ WriteOutput
  \/ WriteFails

Spec == Init /\ [][Next]_vars

\* ------------------------------------------------------------------------
\* _analyze_text applied to one text
\* ------------------------------------------------------------------------
InitText ==
  /\ strict = TRUE
  /\ text \in TextPool
  /\ text_result = Pending
  /\ DriverIdle /\ DomainIdle /\ ChannelIdle /\ ChainIdle

AnalyzeText ==
  /\ ~text_result.done
  /\ text_result' = Done(_analyze_text(text))
  /\ UNCHANGED <<strict, verdicts, signals, chain_vars, driver_vars, text, domain_vars, channel_vars>>

NextText == AnalyzeText

SpecText == InitText /\ [][NextText]_vars

\* ------------------------------------------------------------------------
\* The domain extractors and _analyze_domain applied to one URL string
\* ------------------------------------------------------------------------
InitDomain ==
  /\ strict \in BOOLEAN
  /\ url \in UrlPool
  /\ dpc = "extract"
  /\ domain = Pending
  /\ domain_again = Pending
  /\ bitel_domain = Pending
  /\ bitel_again = Pending
  /\ domain_result = Pending
  /\ DriverIdle /\ TextIdle /\ ChannelIdle /\ ChainIdle

\* _extract_domain(url)
ExtractDomain ==
  /\ dpc = "extract"
  /\ domain' = Done(_extract_domain(url, strict))
  /\ dpc' = "again"
  /\ UNCHANGED <<strict, verdicts, signals, chain_vars, driver_vars, text_vars, channel_vars, url,
                 domain_again, bitel_domain, bitel_again, domain_result>>

\* _extract_domain("http://" + _extract_domain(url))
ExtractAgain ==
  /\ dpc = "again"
  /\ domain_again' = Done(_extract_domain(S_http \o domain.value, strict))
  /\ dpc' = "bitel"
  /\ UNCHANGED <<strict, verdicts, signals, chain_vars, driver_vars, text_vars, channel_vars, url,
                 domain, bitel_domain, bitel_again, domain_result>>

\* extract_domain(url) of filter_bitel_channels.py
BitelExtract ==
  /\ dpc = "bitel"
  /\ bitel_domain' = Done(extract_domain(url, strict))
  /\ dpc' = "bitel_again"
  /\ UNCHANGED <<strict, verdicts, signals, chain_vars, driver_vars, text_vars, channel_vars, url,
                 domain, domain_again, bitel_again, domain_result>>

\* extract_domain("http://" + extract_domain(url))
BitelAgain ==
  /\ dpc = "bitel_again"
  /\ bitel_again' = Done(extract_domain(S_http \o bitel_domain.value, strict))
  /\ dpc' = "analyze"
  /\ UNCHANGED <<strict, verdicts, signals, chain_vars, driver_vars, text_vars, channel_vars, url,
                 domain, domain_again, bitel_domain, domain_result>>

\* _analyze_domain(url)
AnalyzeDomain ==
  /\ dpc = "analyze"
  /\ domain_result' = Done(_analyze_domain(url, strict))
  /\ dpc' = "done"
  /\ UNCHANGED <<strict, verdicts, signals, chain_vars, driver_vars, text_vars, channel_vars, url,
                 domain, domain_again, bitel_domain, bitel_again>>

NextDomain ==
  \/ ExtractDomain
  \/ ExtractAgain
  \/ BitelExtract
  \/ BitelAgain
  \/ AnalyzeDomain

SpecDomain == InitDomain /\ [][NextDomain]_vars

\* ------------------------------------------------------------------------
\* analyze_channel applied to one channel
\* ------------------------------------------------------------------------
InitChannel ==
  /\ strict \in BOOLEAN
  /\ channel_data \in ChannelPool
  /\ channel_result = Pending
  /\ DriverIdle /\ TextIdle /\ DomainIdle /\ ChainIdle

AnalyzeChannel ==
  /\ ~channel_result.done
  /\ channel_result' = Done(analyze_channel(channel_data, strict))
  /\ UNCHANGED <<strict, verdicts, signals, chain_vars, driver_vars, text_vars, domain_vars, channel_data>>

NextChannel == AnalyzeChannel

SpecChannel == InitChannel /\ [][NextChannel]_vars

\* ------------------------------------------------------------------------
\* Two filters chained, in both orders, each run reading the table the
\* previous run wrote
\* ------------------------------------------------------------------------
\* the rows of the tables: a header, the scenarios of the documentation,
\* a Pluto TV channel, a political channel, a pattern-only religious name
\* and a one-column row
ChainRowPool ==
  {<<H_id, H_name, H_url>>,
   <<<<"1">>, T_IglesiaAdventistaTV, U_example>>,
   <<<<"2">>, T_SportsChannel, U_bitel>>,
   <<<<"5">>, T_PadrePio>>,
   <<<<"6">>, T_PlutoTVCine, U_example>>,
   <<<<"7">>, T_CongresoTV, U_example>>,
   <<U_ewtn_bare>>}

\* the pairs of different filters, each pair once
StagePairs ==
  {<<"improved", "pluto">>, <<"improved", "political">>, <<"improved", "keyword">>,
   <<"pluto", "political">>, <<"pluto", "keyword">>, <<"political", "keyword">>}

FileNames == {"input", "forward_mid", "forward_out", "reverse_mid", "reverse_out"}

NoFile == [exists |-> FALSE, rows |-> <<>>]

File(rows) == [exists |-> TRUE, rows |-> rows]

\* the four runs: first then second, and second then first
Schedule ==
  <<[filter |-> stages[1], input |-> "input", output |-> "forward_mid"],
    [filter |-> stages[2], input |-> "forward_mid", output |-> "forward_out"],
    [filter |-> stages[2], input |-> "input", output |-> "reverse_mid"],
    [filter |-> stages[1], input |-> "reverse_mid", output |-> "reverse_out"]>>

\* the loop of filter_csv over a whole table at the threshold main passes
RECURSIVE Loop(_, _)
Loop(acc, rows) ==
  IF rows = <<>> THEN acc
  ELSE Loop(LoopBody(acc, Head(rows), verdicts[Head(rows)], DefaultThreshold),
            Tail(rows))

\* the rows filter_csv writes to output_file
filter_csv(rows) == Loop(EmptyAcc, rows).remaining_channels

\* the rows filter_pluto_channels writes (47-67)
filter_pluto_channels(rows) == SelectSeq(rows, LAMBDA row : ~flags[row].pluto)

\* the rows filter_political_channels writes for a table with a first
\* row: the first row unexamined, then the rows with two columns or more
\* that are not political (74-95)
filter_political_channels(rows) ==
  <<Head(rows)>>
    \o SelectSeq(Tail(rows), LAMBDA row : Len(row) >= 2 /\ ~flags[row].political)

\* the rows filter_channels of filter_religious_channels.py writes (90-110)
filter_channels(rows) == SelectSeq(rows, LAMBDA row : ~flags[row].keyword)

\* what a run reports: the rows it removed and its total of rows processed
NoReport == [made |-> FALSE, removed |-> <<>>, total |-> 0]

Report(removed, total) == [made |-> TRUE, removed |-> removed, total |-> total]

\* filtered_details and total_channels of filter_csv (335-340)
ImprovedReport(rows) ==
  With(Loop(EmptyAcc, rows), LAMBDA acc :
    Report([i \in 1..Len(acc.filtered_channels) |-> acc.filtered_channels[i].row],
           acc.total_channels))

\* pluto_channels of filter_pluto_channels (52-56); main counts the lines
\* of the input as the original channels (95-97)
PlutoReport(rows) ==
  Report(SelectSeq(rows, LAMBDA row : flags[row].pluto), Len(rows))

\* political_channels of filter_political_channels (81-85) and the total
\* it prints, len(political_channels) + len(filtered_channels) (98)
PoliticalReport(rows) ==
  With(SelectSeq(Tail(rows), LAMBDA row : flags[row].political), LAMBDA political :
    Report(political, Len(political) + Len(filter_political_channels(rows)) - 1))

\* filtered_out_channels and total_channels of filter_channels (91-117)
KeywordReport(rows) ==
  Report(SelectSeq(rows, LAMBDA row : flags[row].keyword), Len(rows))

InitChain ==
  /\ strict = TRUE
  /\ verdicts = [r \in ChainRowPool |-> analyze_channel(ChannelData(r), strict)]
  /\ flags = [r \in ChainRowPool |->
                [pluto |-> PlutoRemoves(r),
                 political |-> PoliticalRemoves(r),
                 keyword |-> KeywordRemoves(r)]]
  /\ signals = <<>>
  /\ stages \in StagePairs
  /\ cpc = 1
  /\ \E table \in SeqsUpTo(ChainRowPool, 0, MaxRows) :
       chain_files = [f \in FileNames |-> IF f = "input" THEN File(table) ELSE NoFile]
  /\ reports = [f \in FileNames |-> NoReport]
  /\ input_rows = <<>>
  /\ confidence_threshold = DefaultThreshold
  /\ pc = "idle"
  /\ filtered_channels = <<>>
  /\ remaining_channels = <<>>
  /\ total_channels = 0
  /\ files = {}
  /\ ret = NoReturn
  /\ TextIdle /\ DomainIdle /\ ChannelIdle

\* a run of improved_religious_filter.py: a missing input file raises and
\* nothing is written
RunImproved ==
  /\ cpc \in 1..4
  /\ Schedule[cpc].filter = "improved"
  /\ chain_files' =
       [chain_files EXCEPT ![Schedule[cpc].output] =
          IF chain_files[Schedule[cpc].input].exists
            THEN File(filter_csv(chain_files[Schedule[cpc].input].rows))
            ELSE @]
  /\ reports' =
       [reports EXCEPT ![Schedule[cpc].output] =
          IF chain_files[Schedule[cpc].input].exists
            THEN ImprovedReport(chain_files[Schedule[cpc].input].rows)
            ELSE @]
  /\ cpc' = cpc + 1
  /\ UNCHANGED <<strict, verdicts, signals, flags, stages, driver_vars,
                 text_vars, domain_vars, channel_vars>>

\* a run of filter_pluto_channels.py
RunPluto ==
  /\ cpc \in 1..4
  /\ Schedule[cpc].filter = "pluto"
  /\ chain_files' =
       [chain_files EXCEPT ![Schedule[cpc].output] =
          IF chain_files[Schedule[cpc].input].exists
            THEN File(filter_pluto_channels(chain_files[Schedule[cpc].input].rows))
            ELSE @]
  /\ reports' =
       [reports EXCEPT ![Schedule[cpc].output] =
          IF chain_files[Schedule[cpc].input].exists
            THEN PlutoReport(chain_files[Schedule[cpc].input].rows)
            ELSE @]
  /\ cpc' = cpc + 1
  /\ UNCHANGED <<strict, verdicts, signals, flags, stages, driver_vars,
                 text_vars, domain_vars, channel_vars>>

\* a run of filter_political_channels.py: a missing input file returns
\* False (52-54), and next(reader) on an empty table raises StopIteration,
\* which the except clause catches: nothing is written
RunPolitical ==
  /\ cpc \in 1..4
  /\ Schedule[cpc].filter = "political"
  /\ chain_files' =
       [chain_files EXCEPT ![Schedule[cpc].output] =
          IF /\ chain_files[Schedule[cpc].input].exists
             /\ chain_files[Schedule[cpc].input].rows # <<>>
            THEN File(filter_political_channels(chain_files[Schedule[cpc].input].rows))
            ELSE @]
  /\ reports' =
       [reports EXCEPT ![Schedule[cpc].output] =
          IF /\ chain_files[Schedule[cpc].input].exists
             /\ chain_files[Schedule[cpc].input].rows # <<>>
            THEN PoliticalReport(chain_files[Schedule[cpc].input].rows)
            ELSE @]
  /\ cpc' = cpc + 1
  /\ UNCHANGED <<strict, verdicts, signals, flags, stages, driver_vars,
                 text_vars, domain_vars, channel_vars>>

\* a run of filter_religious_channels.py
RunKeyword ==
  /\ cpc \in 1..4
  /\ Schedule[cpc].filter = "keyword"
  /\ chain_files' =
       [chain_files EXCEPT ![Schedule[cpc].output] =
          IF chain_files[Schedule[cpc].input].exists
            THEN File(filter_channels(chain_files[Schedule[cpc].input].rows))
            ELSE @]
  /\ reports' =
       [reports EXCEPT ![Schedule[cpc].output] =
          IF chain_files[Schedule[cpc].input].exists
            THEN KeywordReport(chain_files[Schedule[cpc].input].rows)
            ELSE @]
  /\ cpc' = cpc + 1
  /\ UNCHANGED <<strict, verdicts, signals, flags, stages, driver_vars,
                 text_vars, domain_vars, channel_vars>>

NextChain ==
  \/ RunImproved
  \/ RunPluto
  \/ RunPolitical
  \/ RunKeyword

SpecChain == InitChain /\ [][NextChain]_vars

\* ------------------------------------------------------------------------
\* Properties
\* ------------------------------------------------------------------------
\* filter_csv returned its statistics
Success == pc = "done" /\ ret.kind = "stats"

\* the rows of filtered_channels
FlaggedRows == [i \in 1..Len(filtered_channels) |-> filtered_channels[i].row]

\* the number of occurrences of r in the sequence s
Count(r, s) == Cardinality({i \in 1..Len(s) : s[i] = r})

\* the rows read so far
RowsRead == SubSeq(input_rows, 1, total_channels)

\* the row is classified and its verdict passes the threshold
IsFlagged(row) ==
  /\ Len(row) >= 2
  /\ verdicts[row].is_religious
  /\ verdicts[row].confidence >= confidence_threshold

IsKept(row) == ~IsFlagged(row)

\* C1: after a run of filter_csv that returns without error every input
\* row, whatever its column count, is in exactly one of remaining_channels
\* and filtered_channels (each occurrence of a row in the input is one
\* occurrence in the two lists together, and none is in both), and
\* total_channels = filtered_channels + remaining_channels.
C1_Partition ==
  Success =>
    /\ \A r \in RowPool :
         /\ Count(r, input_rows) = Count(r, remaining_channels) + Count(r, FlaggedRows)
         /\ Count(r, remaining_channels) = 0 \/ Count(r, FlaggedRows) = 0
    /\ ret.total_channels = Len(input_rows)
    /\ ret.filtered_channels = Len(filtered_channels)
    /\ ret.remaining_channels = Len(remaining_channels)
    /\ ret.total_channels = ret.filtered_channels + ret.remaining_channels

\* a run that flagged a row and kept a row with fewer than two columns
C1_Witness ==
  /\ Success
  /\ filtered_channels # <<>>
  /\ \E i \in 1..Len(remaining_channels) : Len(remaining_channels[i]) < 2

\* the text holds no high-precision keyword and no pattern matches it
NoPrimarySignal(t) ==
  \E tl \in {Lower(t)} :
    /\ \A k \in high_precision_keywords : ~Contains(tl, k)
    /\ \A i \in 1..Len(religious_patterns) : ~PatternFound(religious_patterns[i], tl)

\* the text holds a high-precision keyword, case-insensitively
HasHighPrecisionTerm(t) ==
  \E tl \in {Lower(t)} : \E k \in high_precision_keywords : Contains(tl, k)

\* the number of context keywords in the text
ContextTermCount(t) ==
  Cardinality({k \in context_dependent_keywords : Contains(Lower(t), k)})

\* C2: a text with no high-precision term and no pattern match gets
\* confidence 0.0, detected = false, no reasons and no matched terms from
\* _analyze_text, however many context-dependent terms it contains.
C2_ContextNeverSelfTriggers ==
  (text_result.done /\ NoPrimarySignal(text)) => text_result.value = NoSignal

\* a text with two context terms and no primary signal was analyzed
C2_Witness ==
  /\ text_result.done
  /\ NoPrimarySignal(text)
  /\ ContextTermCount(text) >= 2

\* the loop body flags the row at the default threshold with confidence >= 0.8
FlaggedAtDefault(row, s) ==
  \E v \in {analyze_channel(ChannelData(row), s)} :
    /\ LoopBody(EmptyAcc, row, v, DefaultThreshold).filtered_channels
         = <<[row |-> row, result |-> v]>>
    /\ v.confidence >= HighPrecisionWeight

\* C3: a text that contains a high-precision term (case-insensitively) gets
\* confidence >= 0.8 and detected = true from _analyze_text, and a row with
\* that text as its name is flagged by the loop of filter_csv at the default
\* threshold with confidence >= 0.8.
C3_HighPrecisionDetected ==
  (text_result.done /\ HasHighPrecisionTerm(text)) =>
    /\ text_result.value.confidence >= HighPrecisionWeight
    /\ text_result.value.detected
    /\ FlaggedAtDefault(<<<<"1">>, text>>, strict)
    /\ FlaggedAtDefault(<<<<"1">>, text, U_example>>, strict)

\* a text whose high-precision term is written with a capital was analyzed
C3_Witness ==
  /\ text_result.done
  /\ HasHighPrecisionTerm(text)
  /\ \A k \in high_precision_keywords : ~Contains(text, k)

\* C4: filter_csv puts a row in the flagged partition if and only if a
\* verdict was computed for it (the row has two columns or more) with
\* is_religious true and confidence >= confidence_threshold, where
\* is_religious = text.detected or domain.detected; every other row is kept.
C4_FlagIffVerdictPasses ==
  \A i \in 1..total_channels :
    \E row \in {input_rows[i]} :
      /\ Count(row, FlaggedRows) > 0
           <=> (/\ Len(row) >= 2
                /\ verdicts[row].is_religious
                /\ verdicts[row].confidence >= confidence_threshold)
      /\ Count(row, remaining_channels) > 0 <=> Count(row, FlaggedRows) = 0
      /\ verdicts[row].is_religious
           = (signals[row].text.detected \/ signals[row].dom.detected)

\* a run that kept a row whose verdict is religious but below the
\* threshold, and flagged a row that only one analyzer detected
C4_Witness ==
  /\ Success
  /\ \E i \in 1..Len(remaining_channels) :
       /\ Len(remaining_channels[i]) >= 2
       /\ verdicts[remaining_channels[i]].is_religious
  /\ \E i \in 1..Len(filtered_channels) :
       signals[filtered_channels[i].row].text.detected
         # signals[filtered_channels[i].row].dom.detected

\* the url column (third column) of the row holds a URL whose host
\* contains a domain term, and the name holds no religious term
DomainOnlyRow(row) ==
  /\ Len(row) >= 3
  /\ DomainMatches(_extract_domain(row[3], strict)) # {}
  /\ NoPrimarySignal(row[2])

\* C5 (as claimed): a row whose url column holds a URL with a
\* domain-indicator term in its host and whose name carries no religious
\* term is flagged through the domain analyzer: confidence >= 0.9 and the
\* reason religious_domain.
C5_Claim ==
  (Success /\ confidence_threshold = DefaultThreshold) =>
    \A i \in 1..Len(input_rows) :
      DomainOnlyRow(input_rows[i]) =>
        \E j \in 1..Len(filtered_channels) :
          /\ filtered_channels[j].row = input_rows[i]
          /\ filtered_channels[j].result.confidence >= DomainWeight
          /\ "religious_domain" \in filtered_channels[j].result.reasons

\* the row has fewer than two populated (non-empty) fields
FewPopulatedFields(row) == Cardinality({j \in 1..Len(row) : row[j] # <<>>}) < 2

\* the row has no name column, or an empty one
NoUsableName(row) == Field(row, 1) = <<>>

\* C6 (as claimed): a row with fewer than two populated fields, i.e. with
\* no usable name, is always kept and never classified.
C6_Claim ==
  \A i \in 1..total_channels :
    (FewPopulatedFields(input_rows[i]) /\ NoUsableName(input_rows[i])) =>
      /\ Count(input_rows[i], FlaggedRows) = 0
      /\ Count(input_rows[i], remaining_channels) > 0

\* C6 (amended): a row with fewer than two columns is always kept by
\* filter_csv and never classified, whatever its only field contains, and
\* reaches the output unchanged.
C6_ShortRowsKept ==
  /\ \A i \in 1..total_channels :
       Len(input_rows[i]) < 2 =>
         /\ Count(input_rows[i], FlaggedRows) = 0
         /\ Count(input_rows[i], remaining_channels) = Count(input_rows[i], RowsRead)
  /\ Success =>
       \A i \in 1..Len(input_rows) :
         Len(input_rows[i]) < 2 =>
           \E f \in files :
             /\ f.file = "output_file"
             /\ Count(input_rows[i], f.rows) = Count(input_rows[i], input_rows)

\* a run at the default threshold whose input holds a one-column row that
\* the classifier would flag
C6_Witness ==
  /\ Success
  /\ confidence_threshold = DefaultThreshold
  /\ \E i \in 1..Len(input_rows) :
       /\ Len(input_rows[i]) = 1
       /\ verdicts[input_rows[i]].is_religious

\* C7: the confidence of analyze_channel is max(text.confidence,
\* domain.confidence), and min(1.0, 1.2 * that maximum) when both analyzers
\* detected; it is >= each analyzer's confidence and <= 1.0.
C7_CombinedConfidence ==
  channel_result.done =>
    \E t \in {_analyze_text(CombinedText(channel_data))},
       d \in {_analyze_domain(channel_data.url, strict)} :
      \E m \in {IF t.confidence >= d.confidence THEN t.confidence ELSE d.confidence} :
        /\ channel_result.value.confidence
             = IF t.detected /\ d.detected
                 THEN (IF (12 * m) \div 10 <= One THEN (12 * m) \div 10 ELSE One)
                 ELSE m
        /\ channel_result.value.confidence >= t.confidence
        /\ channel_result.value.confidence >= d.confidence
        /\ channel_result.value.confidence <= One

\* a channel both analyzers detected with confidences below 1.0, boosted
C7_Witness ==
  /\ channel_result.done
  /\ \E t \in {_analyze_text(CombinedText(channel_data))},
        d \in {_analyze_domain(channel_data.url, strict)} :
       /\ t.detected /\ d.detected
       /\ t.confidence < One /\ d.confidence < One
       /\ channel_result.value.confidence = One

\* C8 (as claimed): whenever parsing the URL fails, domain extraction
\* yields the empty string and the domain analyzer returns detected =
\* false with confidence 0.0.
C8_Claim ==
  (dpc = "done" /\ url # <<>> /\ urlparse(WithScheme(url), strict).raised) =>
    /\ domain.value = <<>>
    /\ ~domain_result.value.detected
    /\ domain_result.value.confidence = 0

\* C9 (as claimed): extracting the domain of "http://" + extract_domain(url)
\* returns extract_domain(url), for both extractors.
C9_Claim ==
  dpc = "done" =>
    /\ domain_again.value = domain.value
    /\ bitel_again.value = bitel_domain.value

\* C10 (as claimed): a run emits two tables, one of the kept rows and one
\* of the flagged rows.
C10_Claim ==
  Success =>
    \E f \in files, g \in files :
      /\ f.file # g.file
      /\ f.rows = SelectSeq(input_rows, IsKept)
      /\ g.rows = SelectSeq(input_rows, IsFlagged)

\* C10 (amended): a run that returns without error writes exactly one
\* table, output_file, holding the kept rows unchanged and in input order;
\* the flagged rows are written to no table: they are returned in
\* filtered_details, with their verdicts, in input order.
C10_KeptTableOnly ==
  Success =>
    /\ files = {[file |-> "output_file", rows |-> SelectSeq(input_rows, IsKept)]}
    /\ [i \in 1..Len(ret.filtered_details) |-> ret.filtered_details[i].row]
         = SelectSeq(input_rows, IsFlagged)

\* a run with a flagged row and a kept row
C10_Witness ==
  /\ Success
  /\ ret.filtered_details # <<>>
  /\ remaining_channels # <<>>

\* C11: in every execution of filter_csv the output file is written only
\* after every input row has been read and classified; when opening the
\* input fails or reading fails part-way, no output file is created or
\* modified, the call returns the error result and main ends with a
\* non-zero status.
C11_OutputAfterWholeInput ==
  [][/\ files' # files =>
          /\ pc = "writing"
          /\ total_channels = Len(input_rows)
          /\ Len(filtered_channels) + Len(remaining_channels) = Len(input_rows)
     /\ (pc \in {"start", "reading"} /\ pc' = "done") =>
          /\ files' = {}
          /\ ret'.kind = "error"
          /\ main(ret') # 0]_vars

\* reading failed after one row was classified and before the last one
C11_Witness ==
  /\ pc = "done"
  /\ ret.kind = "error"
  /\ 0 < total_channels
  /\ total_channels < Len(input_rows)
  /\ files = {}

\* C12: filter_csv preserves input order inside each partition: the kept
\* rows and the flagged rows are, at every moment, the kept and the flagged
\* rows read so far in input order, and the kept rows are written to the
\* output file in that order.
C12_OrderPreserved ==
  /\ remaining_channels = SelectSeq(RowsRead, IsKept)
  /\ FlaggedRows = SelectSeq(RowsRead, IsFlagged)
  /\ Success =>
       \A f \in files : f.rows = SelectSeq(input_rows, IsKept)

\* a run that kept two different rows, both classified, and wrote them
C12_Witness ==
  /\ Success
  /\ Len(remaining_channels) = 2
  /\ remaining_channels[1] # remaining_channels[2]
  /\ Len(remaining_channels[1]) >= 2
  /\ Len(remaining_channels[2]) >= 2
  /\ files # {}

\* the false-positive guard patterns, \btelefe\b and \bcafe\b (137-140),
\* by position in the pattern list
GuardPatterns ==
  {i \in 1..Len(religious_patterns) : religious_patterns[i].kind = "end"}

\* the text holds no high-precision keyword and the only patterns that
\* match it are guard patterns
OnlyGuardMatches(t) ==
  \E tl \in {Lower(t)} :
    /\ HighPrecisionMatches(tl) = {}
    /\ PatternMatches(tl) # {}
    /\ PatternMatches(tl) \subseteq GuardPatterns

\* C13 (as claimed): a guard pattern does not alter scoring: a text with no
\* high-precision term whose only pattern match is a guard pattern gets
\* confidence 0.0 and detected = false from _analyze_text, as it would
\* with the guard patterns removed from the list.
C13_Claim ==
  (text_result.done /\ OnlyGuardMatches(text)) =>
    /\ text_result.value.confidence = 0
    /\ ~text_result.value.detected

\* H: the number of high-precision terms that are substrings of the
\* lower-cased text
CountH(t) ==
  Cardinality({k \in high_precision_keywords : Contains(Lower(t), k)})

\* P: the number of patterns of the list, guards included, that match the
\* text at least once (the patterns are case-insensitive)
CountP(t) ==
  Cardinality({i \in 1..Len(religious_patterns) :
                 PatternFound(religious_patterns[i], Lower(t))})

\* C: the number of context terms that are substrings of the lower-cased
\* text if H + P > 0, and 0 otherwise
CountC(t) ==
  IF CountH(t) + CountP(t) > 0 THEN ContextTermCount(t) ELSE 0

CountS(host) == Cardinality({k \in religious_domains : Contains(host, k)})

\* L: the number of dot-separated labels of the host that are domain terms
CountL(host) ==
  With(Split(host, "."), LAMBDA parts :
    Cardinality({i \in 1..Len(parts) : parts[i] \in religious_domains}))

\* C15: _analyze_domain returns (false, 0.0, no reasons, no terms) when the
\* extracted host is empty, and otherwise confidence = min(1.0, 0.9*S +
\* 0.7*L) and detected = (confidence >= 0.6); the host iglesia.example.com
\* gives confidence >= 0.9 and detected = true.
C15_DomainConfidenceFormula ==
  dpc = "done" =>
    /\ domain.value = <<>> => domain_result.value = NoSignal
    /\ domain.value # <<>> =>
         \E sum \in {DomainWeight * CountS(domain.value)
                       + SubdomainWeight * CountL(domain.value)} :
           /\ domain_result.value.confidence = (IF sum <= One THEN sum ELSE One)
           /\ domain_result.value.detected
                = (domain_result.value.confidence >= DomainDetectThreshold)
    /\ domain.value = U_iglesia_host =>
         /\ domain_result.value.confidence >= DomainWeight
         /\ domain_result.value.detected

\* the url iglesia.example.com was analyzed: one domain term is a
\* substring of the host and one label is a domain term
C15_Witness ==
  /\ dpc = "done"
  /\ url = U_iglesia_host
  /\ domain.value = U_iglesia_host
  /\ CountS(domain.value) = 1
  /\ CountL(domain.value) = 1
  /\ domain_result.value.confidence = One

\* the netloc without its userinfo: netloc.rpartition('@')[2]
HostInfo(netloc) ==
  IF \E i \in 1..Len(netloc) : netloc[i] = "@"
    THEN Drop(netloc, (CHOOSE i \in 1..Len(netloc) :
                         /\ netloc[i] = "@"
                         /\ \A j \in (i + 1)..Len(netloc) : netloc[j] # "@") + 1)
    ELSE netloc

\* the host component of a netloc: the userinfo and the :<port> suffix are
\* not part of it; a bracketed host ends at its closing bracket
HostComponent(netloc) ==
  With(HostInfo(netloc), LAMBDA hostinfo :
    IF hostinfo # <<>> /\ hostinfo[1] = "[" /\ "]" \in Range(hostinfo)
      THEN SubSeq(hostinfo, 1, FindFrom(hostinfo, {"]"}, 1))
      ELSE IF ":" \in Range(hostinfo) THEN Split(hostinfo, ":")[1] ELSE hostinfo)

\* C16 (as claimed): for every URL-like string, with or without an http://
\* or https:// scheme and with optional userinfo, port and path, domain
\* extraction returns the lower-cased host component with a trailing
\* :<port> removed and nothing else removed or substituted.
C16_Claim ==
  (dpc = "done" /\ url # <<>> /\ ~urlparse(WithScheme(url), strict).raised) =>
    /\ domain.value = Lower(HostComponent(Netloc(WithScheme(url))))
    /\ bitel_domain.value = Lower(HostComponent(Netloc(WithScheme(url))))

\* C18 (as claimed): the three term sets of the lexicon are pairwise
\* disjoint, so no term is counted both as a high-precision hit and as a
\* context hit for the same text.
C18_Claim ==
  /\ high_precision_keywords \cap context_dependent_keywords = {}
  /\ high_precision_keywords \cap religious_domains = {}
  /\ context_dependent_keywords \cap religious_domains = {}
  /\ text_result.done =>
       \E tl \in {Lower(text)} :
         \E hp \in {HighPrecisionMatches(tl)}, pm \in {PatternMatches(tl)} :
           hp \cap ContextMatches(tl, hp, pm) = {}

\* C19: whenever both the text analyzer and the domain analyzer detect for
\* the same record the confidence of analyze_channel is exactly 1.0: a
\* detecting domain analyzer has confidence >= 0.9, and 1.2 times a value
\* >= 0.9 is clamped to 1.0.
C19_BothDetectGivesOne ==
  channel_result.done =>
    \E t \in {_analyze_text(CombinedText(channel_data))},
       d \in {_analyze_domain(channel_data.url, strict)} :
      /\ d.detected => d.confidence >= DomainWeight
      /\ (t.detected /\ d.detected) => channel_result.value.confidence = One

\* a channel detected by one pattern (0.6) and by one domain term (0.9)
C19_Witness ==
  /\ channel_result.done
  /\ \E t \in {_analyze_text(CombinedText(channel_data))},
        d \in {_analyze_domain(channel_data.url, strict)} :
       /\ t.detected /\ t.confidence = PatternWeight
       /\ d.detected /\ d.confidence = DomainWeight
  /\ channel_result.value.confidence = One

\* the row is classified and its verdict is religious
IsReligiousRow(row) == Len(row) >= 2 /\ verdicts[row].is_religious

\* C20: for every record is_religious holds if and only if the verdict
\* confidence is greater than 0, and then the confidence is at least 0.6;
\* hence for every confidence_threshold <= 0.6 the threshold test of
\* filter_csv is redundant: the removed rows are the rows with
\* is_religious = true.
C20_ThresholdRedundant ==
  /\ \A i \in 1..total_channels :
       \E v \in {verdicts[input_rows[i]]} :
         /\ v.is_religious <=> v.confidence > 0
         /\ v.is_religious => v.confidence >= 6000
  /\ confidence_threshold <= 6000 =>
       FlaggedRows = SelectSeq(RowsRead, IsReligiousRow)

\* a run with confidence_threshold = 0.6 that removed a row whose verdict
\* has confidence exactly 0.6
C20_Witness ==
  /\ Success
  /\ confidence_threshold = 6000
  /\ \E j \in 1..Len(filtered_channels) :
       filtered_channels[j].result.confidence = 6000

\* C17 (as claimed): the filter stages may run in any order: for every
\* input table, with or without a header row, and every two of the row
\* filters, chaining them in either order, each reading the table the
\* previous one wrote, yields the same final table of kept rows.
C17_Claim ==
  cpc = 5 => chain_files["forward_out"] = chain_files["reverse_out"]

\* the csv-based collaborator filters
CollaboratorFilters == {"keyword", "pluto", "political"}

\* the row has too few columns for the filter to classify it
TooFewColumns(filter, row) ==
  IF filter = "pluto" THEN Len(row) < 3 ELSE Len(row) < 2

\* the rows of a table after the header the political filter reads
DataRows(filter, rows) ==
  IF filter = "political" /\ rows # <<>> THEN Tail(rows) ELSE rows

\* C21 (as claimed): in each csv-based collaborator filter every data row
\* of the input ends in exactly one of the kept output and the removed
\* list, rows with too few columns being kept in the output unchanged, so
\* the reported total equals the number of data rows read.
C21_Claim ==
  \A i \in 1..4 :
    (/\ i < cpc
     /\ Schedule[i].filter \in CollaboratorFilters
     /\ reports[Schedule[i].output].made) =>
      \E f \in {Schedule[i].filter} :
        \E data \in {DataRows(f, chain_files[Schedule[i].input].rows)},
           kept \in {DataRows(f, chain_files[Schedule[i].output].rows)},
           removed \in {reports[Schedule[i].output].removed} :
          /\ \A r \in ChainRowPool :
               /\ Count(r, data) = Count(r, kept) + Count(r, removed)
               /\ Count(r, kept) = 0 \/ Count(r, removed) = 0
               /\ TooFewColumns(f, r) => Count(r, kept) = Count(r, data)
          /\ reports[Schedule[i].output].total = Len(data)
====
